---- MODULE Spec2Model ----
(***************************************************************************)
(* Model of mbxaspy's parallel layer: pool_class / para_class of           *)
(* para_defs.py (pool construction, root group, spin/k-point work lists,   *)
(* printing and buffered logging) and the distribution of the incident     *)
(* energies over the ranks in rixs_f1 of rixs.py.                          *)
(*                                                                         *)
(* Every process (rank) of the run holds its own pool_class object; the    *)
(* model keeps one record per rank in the function "pool".  The program is *)
(* SPMD: set_pool is a collective call, so under Spec one action stands    *)
(* for "every rank executes the method with these arguments".  Under       *)
(* SpecPar the ranks run the same script of calls independently and meet   *)
(* only in the MPI collectives, which are modelled call by call.           *)
(*                                                                         *)
(* SpecAssign is Spec with the work assignment calls counted.  SpecSetPool,*)
(* SpecLog and SpecSerial run scripts as SpecPar does: set_pool alone with *)
(* any argument; the print and log calls; and, for one process, every      *)
(* call side by side with a run made with para_class(MPI = None).          *)
(* SpecRixs runs rixs_f1 on every rank of its communicator.                *)
(***************************************************************************)
EXTENDS Integers, Sequences, FiniteSets, TLC

\* ---------------------------------------------------------------- bounds
MaxP     == 10   \* largest para.size (number of MPI processes)
MaxM     == 4    \* largest nproc_per_pool argument
MaxSpin  == 2    \* largest nspin
MaxK     == 5    \* largest nk (total number of k-points)
MaxProcs == 5    \* largest para.size under SpecPar
MaxNpp   == 3    \* largest nproc_per_pool under SpecPar
MaxCalls == 1    \* calls of a script after set_pool and the work assignment
MaxAssign == 2   \* work assignment calls in a row under SpecAssign
MaxLogProcs == 3 \* largest para.size under SpecLog
MaxLogNpp   == 2 \* largest nproc_per_pool under SpecLog
MaxLogCalls == 3 \* logging and printing calls of a script after set_pool
MaxSerialCalls == 2 \* calls of a SpecSerial script after the assignment
MaxRanks == 3    \* largest communicator size of rixs_f1
MaxEner  == 3    \* largest nener_in

VARIABLES
    size,             \* para.size: number of processes P
    nproc_per_pool,   \* argument of the last set_pool call (0: not called)
    remainder_mode,   \* argument of the last set_pool call
    pool,             \* pool[r]: the pool_class object of rank r
    policy,           \* which work assigner ran last: "none", "block", "striped"
    script,           \* SpecPar: the calls every rank executes, in order
    ip,               \* ip[r]: index in script of rank r's current call
    at,               \* at[r]: the collective rank r is inside, or "idle"
    coll,             \* coll[r][c]: collectives rank r issued on communicator c
    loc,              \* loc[r]: local variable of the running method (ranks, mypool)
    para_msg,         \* para_msg[r]: para.msg of rank r
    out,              \* out[r]: what rank r printed so far
    raised,           \* raised[r]: the exception that ended rank r's call, or ""
    serial,           \* the objects of a run made with para_class(MPI = None)
    sk_args,          \* sk_args[r]: arguments of rank r's last work assignment
    ncalls,           \* SpecAssign: work assignment calls made so far
    nener_in,         \* rixs_f1: number of incident-energy intervals
    loss_mode,        \* rixs_f1: argument loss_mode
    Mv1c1,            \* rixs_f1: Mv1c1[w], magnitude of the matrix of index w
    Mv1c1_max,        \* rixs_f1: Mv1c1_max[r] of rank r
    rixs_map          \* rixs_f1: rixs_map[r], the matrix of rank r, row by row

parvars == <<script, ip, at, coll, loc, para_msg, out>>

\* what only the serial-backend comparison and the exceptions use
extvars == <<raised, serial, sk_args, ncalls>>

\* what only rixs_f1 uses
rixsvars == <<nener_in, loss_mode, Mv1c1, Mv1c1_max, rixs_map>>

vars == <<size, nproc_per_pool, remainder_mode, pool, policy,
          script, ip, at, coll, loc, para_msg, out,
          raised, serial, sk_args, ncalls,
          nener_in, loss_mode, Mv1c1, Mv1c1_max, rixs_map>>

Procs == 0 .. (size - 1)

Min(a, b) == IF a < b THEN a ELSE b

\* pool_class.__init__ (attributes Python creates later are given neutral
\* values here: 0, {} and <<>>)
NewPool ==
    [ up |-> FALSE, npp |-> 0, n |-> 0, i |-> 0,
      comm |-> {}, size |-> 0, rank |-> 0,
      roots |-> <<>>, rootcomm |-> {},
      nspin |-> 0, nk |-> 0, nk_use |-> 0,
      sk_list |-> <<>>, sk_offset |-> <<>>, nsk |-> 0,
      pool_list |-> <<>>, sk_list_all |-> <<>>, sk_list_maxl |-> 0,
      msg |-> <<>> ]

\* ------------------------------------------------------------- set_pool
\* lines 54-58: npp = int(nproc_per_pool), clamped to para.size
ClampNpp(P, M) == IF P < M THEN P ELSE M

\* line 59: number of pools
NumPools(P, npp) == P \div npp

ContiguousIndexNoShift(P, npp, rk) ==
    LET res == P % npp
    IN  IF rk < res * (npp + 1)
        THEN rk \div (npp + 1)
        ELSE (rk - res * (npp + 1)) \div npp

\* lines 64-68: pool index in contiguous mode
ContiguousIndex(P, npp, rk) ==
    LET res == P % npp
    IN  IF rk < res * (npp + 1)
        THEN rk \div (npp + 1)
        ELSE ((rk - res * (npp + 1)) \div npp) + res

RemainderIndexDiv(n, rk) == rk \div n

\* line 62: pool index in remainder mode
RemainderIndex(n, rk) == rk % n

\* lines 61-68
PoolIndex(P, npp, n, rk, mode) ==
    IF mode THEN RemainderIndex(n, rk) ELSE ContiguousIndex(P, npp, rk)

\* lines 72-77: colour handed to comm.Split (the key is para.rank)
SplitColor(n, i, rk, mode) == IF mode THEN rk % n ELSE i

\* comm.Split(color, key = para.rank): the new communicator of rank rk holds
\* the ranks of equal colour, ordered by key
SplitMembers(color, rk) == { q \in DOMAIN color : color[q] = color[rk] }

\* line 80: Get_rank() in the new communicator = number of members with a
\* smaller key
SplitRank(members, rk) == Cardinality({ q \in members : q < rk })

\* sorted sequence of a finite set of naturals
RECURSIVE SortedSeq(_)
SortedSeq(S) ==
    IF S = {} THEN <<>>
    ELSE LET m == CHOOSE x \in S : \A y \in S : x <= y
         IN  <<m>> \o SortedSeq(S \ {m})

\* line 84: roots = [ir for ir, r in enumerate(ranks) if r == 0]
RootsOf(ranks) == SortedSeq({ ir \in DOMAIN ranks : ranks[ir] = 0 })

SeqRange(s) == { s[j] : j \in DOMAIN s }

\* lines 85-86: Create_group gives a communicator to the members of the
\* group and COMM_NULL (modelled as {}) to every other caller
CreateGroup(roots, rk) ==
    IF rk \in SeqRange(roots) THEN SeqRange(roots) ELSE {}

\* set_pool as executed by all ranks of the run (lines 51-94, MPI branch)
SetPoolAll(P, M, mode) ==
    LET npp   == ClampNpp(P, M)
        n     == NumPools(P, npp)
        idx   == [r \in 0 .. (P - 1) |-> PoolIndex(P, npp, n, r, mode)]
        color == [r \in 0 .. (P - 1) |-> SplitColor(n, idx[r], r, mode)]
        mem   == [r \in 0 .. (P - 1) |-> SplitMembers(color, r)]
        ranks == [r \in 0 .. (P - 1) |-> SplitRank(mem[r], r)]
        roots == RootsOf(ranks)
    IN  [r \in 0 .. (P - 1) |->
            [ pool[r] EXCEPT
                !.up = TRUE, !.npp = npp, !.n = n, !.i = idx[r],
                !.comm = mem[r], !.size = Cardinality(mem[r]),
                !.rank = ranks[r], !.roots = roots,
                !.rootcomm = CreateGroup(roots, r) ] ]

\* ------------------------------------------------- work-tuple assignment
StripedListUsedK(nspin, nk, nk_use, n, i) ==
    LET all  == [j \in 1 .. (nspin * nk_use) |->
                    <<(j - 1) \div nk_use, (j - 1) % nk_use>>]
        Mine(t) == (t[1] * nk_use + t[2]) % n = i
    IN  SelectSeq(all, Mine)

\* lines 134-139: tuples (s, k) in s-major order whose offset s*nk + k is
\* congruent to the pool index modulo the number of pools
StripedList(nspin, nk, nk_use, n, i) ==
    LET all  == [j \in 1 .. (nspin * nk_use) |->
                    <<(j - 1) \div nk_use, (j - 1) % nk_use>>]
        Mine(t) == (t[1] * nk + t[2]) % n = i
    IN  SelectSeq(all, Mine)

StartKNoRest(nk_use, n, i) == (nk_use \div n) * i

\* lines 161-163
StartK(nk_use, n, i) == (nk_use \div n) * i + Min(nk_use % n, i)

\* line 164: number of k-points of the pool's block
BlockLen(nk_use, n, i) == (nk_use \div n) + (IF i < nk_use % n THEN 1 ELSE 0)

BlockListSpinMajor(nspin, nk_use, n, i) ==
    LET start_k == StartK(nk_use, n, i)
        len     == BlockLen(nk_use, n, i)
    IN  [j \in 1 .. (len * nspin) |->
            <<(j - 1) \div len, start_k + ((j - 1) % len)>>]

\* lines 164-168: k outer loop, spin inner loop
BlockList(nspin, nk_use, n, i) ==
    LET start_k == StartK(nk_use, n, i)
        len     == BlockLen(nk_use, n, i)
    IN  [j \in 1 .. (len * nspin) |->
            <<(j - 1) % nspin, start_k + ((j - 1) \div nspin)>>]

\* lines 136 / 166: offset = s * nk + k
Offsets(list, nk) == [j \in DOMAIN list |-> list[j][1] * nk + list[j][2]]

\* set_sk_list_v1 on one pool object (lines 129-140)
SetSkListV1On(p, nspin, nk, nk_use) ==
    LET l == StripedList(nspin, nk, nk_use, p.n, p.i)
    IN  [ p EXCEPT !.nspin = nspin, !.nk = nk, !.nk_use = nk_use,
                   !.sk_list = l, !.sk_offset = Offsets(l, nk),
                   !.nsk = Len(l) ]

\* set_sk_list on one pool object (lines 156-169)
SetSkListOnAppend(p, nspin, nk, nk_use) ==
    LET l == BlockList(nspin, nk_use, p.n, p.i)
    IN  [ p EXCEPT !.nspin = nspin, !.nk = nk, !.nk_use = nk_use,
                   !.sk_list = @ \o l, !.sk_offset = @ \o Offsets(l, nk),
                   !.nsk = Len(p.sk_list \o l) ]

SetSkListOn(p, nspin, nk, nk_use) ==
    LET l == BlockList(nspin, nk_use, p.n, p.i)
    IN  [ p EXCEPT !.nspin = nspin, !.nk = nk, !.nk_use = nk_use,
                   !.sk_list = l, !.sk_offset = Offsets(l, nk),
                   !.nsk = Len(l) ]

\* no collective issued yet on the world, pool and root communicators
NoCalls == [world |-> <<>>, pool |-> <<>>, root |-> <<>>]

\* para_class(MPI = None) and its pool_class, before any call: nothing
\* logged, nothing printed
NewSerial == [pool |-> NewPool, para_msg |-> <<>>, out |-> <<>>]

\* no work assignment call made yet
NoSkArgs == [nspin |-> 0, nk |-> 0, nk_use |-> 0]

\* the arguments of a work assignment call
SkArgs(nspin, nk, nk_use) == [nspin |-> nspin, nk |-> nk, nk_use |-> nk_use]

\* no exception raised, serial objects fresh, no work assignment made
InitExt ==
    /\ raised = [r \in Procs |-> ""]
    /\ serial = NewSerial
    /\ sk_args = [r \in Procs |-> NoSkArgs]
    /\ ncalls = 0

\* rixs_f1 not called
InitNoRixs ==
    /\ nener_in = 0
    /\ loss_mode = FALSE
    /\ Mv1c1 = <<>>
    /\ Mv1c1_max = [r \in Procs |-> 0]
    /\ rixs_map = [r \in Procs |-> <<>>]

\* ---------------------------------------------------------------- Spec
Init ==
    /\ size \in 1 .. MaxP
    /\ nproc_per_pool = 0
    /\ remainder_mode = FALSE
    /\ pool = [r \in Procs |-> NewPool]
    /\ policy = "none"
    /\ script = <<>>
    /\ ip = [r \in Procs |-> 1]
    /\ at = [r \in Procs |-> "idle"]
    /\ coll = [r \in Procs |-> NoCalls]
    /\ loc = [r \in Procs |-> <<>>]
    /\ para_msg = [r \in Procs |-> <<>>]
    /\ out = [r \in Procs |-> <<>>]
    /\ InitExt
    /\ InitNoRixs

\* every rank calls pool.set_pool(M, mode); pools are set up once
SetPool ==
    /\ \A r \in Procs : ~pool[r].up
    /\ \E M \in 1 .. MaxM, mode \in BOOLEAN :
          /\ nproc_per_pool' = M
          /\ remainder_mode' = mode
          /\ pool' = SetPoolAll(size, M, mode)
    /\ UNCHANGED <<size, policy>>
    /\ UNCHANGED parvars

\* every rank calls pool.set_sk_list(nspin, nk, nk_use)
SetSkList ==
    /\ \A r \in Procs : pool[r].up
    /\ \E nspin \in 1 .. MaxSpin, nk \in 1 .. MaxK :
         \E nk_use \in 1 .. nk :
            /\ pool' = [r \in Procs |->
                           SetSkListOn(pool[r], nspin, nk, nk_use)]
            /\ sk_args' = [r \in Procs |-> SkArgs(nspin, nk, nk_use)]
    /\ policy' = "block"
    /\ UNCHANGED <<size, nproc_per_pool, remainder_mode>>
    /\ UNCHANGED parvars

\* every rank calls pool.set_sk_list_v1(nspin, nk, nk_use)
SetSkListV1 ==
    /\ \A r \in Procs : pool[r].up
    /\ \E nspin \in 1 .. MaxSpin, nk \in 1 .. MaxK :
         \E nk_use \in 1 .. nk :
            /\ pool' = [r \in Procs |->
                           SetSkListV1On(pool[r], nspin, nk, nk_use)]
            /\ sk_args' = [r \in Procs |-> SkArgs(nspin, nk, nk_use)]
    /\ policy' = "striped"
    /\ UNCHANGED <<size, nproc_per_pool, remainder_mode>>
    /\ UNCHANGED parvars

Next ==
    \/ SetPool /\ UNCHANGED <<extvars, rixsvars>>
    \/ SetSkList /\ UNCHANGED <<raised, serial, ncalls, rixsvars>>
    \/ SetSkListV1 /\ UNCHANGED <<raised, serial, ncalls, rixsvars>>

Spec == Init /\ [][Next]_vars

\* ---------------------------------------------------------- SpecAssign
\* The same lockstep calls, with the work assignment calls counted: up to
\* MaxAssign of them follow one another.
InitAssign ==
    /\ size \in 1 .. MaxProcs
    /\ nproc_per_pool = 0
    /\ remainder_mode = FALSE
    /\ pool = [r \in Procs |-> NewPool]
    /\ policy = "none"
    /\ script = <<>>
    /\ ip = [r \in Procs |-> 1]
    /\ at = [r \in Procs |-> "idle"]
    /\ coll = [r \in Procs |-> NoCalls]
    /\ loc = [r \in Procs |-> <<>>]
    /\ para_msg = [r \in Procs |-> <<>>]
    /\ out = [r \in Procs |-> <<>>]
    /\ InitExt
    /\ InitNoRixs

\* one more work assignment call
Counted ==
    /\ ncalls < MaxAssign
    /\ ncalls' = ncalls + 1

NextAssign ==
    \/ SetPool /\ UNCHANGED <<extvars, rixsvars>>
    \/ SetSkList /\ Counted /\ UNCHANGED <<raised, serial, rixsvars>>
    \/ SetSkListV1 /\ Counted /\ UNCHANGED <<raised, serial, rixsvars>>

SpecAssign == InitAssign /\ [][NextAssign]_vars

\* ------------------------------------------------------------- SpecPar
\* Python's None and the empty list / empty string
None == <<>>

\* one collective call: its name, its root argument and the value passed
Call(op, val) == [op |-> op, root |-> 0, val |-> val]

\* rank r enters a collective on its communicator c
Issue(r, c, e) == [coll EXCEPT ![r][c] = Append(@, e)]

MinRank(S) == CHOOSE x \in S : \A y \in S : x <= y

\* the member of communicator S whose rank inside S is j
NthOf(S, j) == CHOOSE q \in S : Cardinality({ x \in S : x < q }) = j

\* A collective returns once every process of S has entered the same call
\* (same position in the communicator's call sequence, same operation and
\* root).  S is the communicator, which the caller must belong to.
Matched(r, c, S) ==
    LET k == Len(coll[r][c])
    IN  /\ r \in S
        /\ \A q \in S :
              /\ Len(coll[q][c]) >= k
              /\ coll[q][c][k].op = coll[r][c][k].op
              /\ coll[q][c][k].root = coll[r][c][k].root

\* comm.gather(value, root = 0): the list of the members' values, by rank
\* in the communicator, at its rank 0; None elsewhere
GatherAt(r, c, S) ==
    LET k == Len(coll[r][c])
    IN  IF r = MinRank(S)
        THEN [j \in 0 .. (Cardinality(S) - 1) |-> coll[NthOf(S, j)][c][k].val]
        ELSE None

\* comm.bcast(value, root = 0): the value passed by rank 0 of the communicator
BcastAt(r, c, S) == coll[MinRank(S)][c][Len(coll[r][c])].val

InRootCommAlways(p) == TRUE

\* "if self.rootcomm" (lines 175, 202) and
\* "self.rootcomm != para.MPI.COMM_NULL" (line 103)
InRootComm(p) == p.rootcomm # {}

\* para.print(msg): only rank 0 prints (lines 240-245)
ParaPrint(r, lines) ==
    IF r = 0 THEN [out EXCEPT ![r] = @ \o lines] ELSE out

Line(by, text) == [by |-> by, text |-> text]

Cur(r) == script[ip[r]]
Idle(r, name) ==
    /\ at[r] = "idle"
    /\ ip[r] <= Len(script)
    /\ Cur(r)[1] = name
Finished(r) == at[r] = "idle" /\ ip[r] > Len(script)

\* the communicator on which the collective behind each label runs
WorldLabels == {"sp_split", "sp_gather", "sp_bcast", "sp_group",
                "info_bcast", "log_gather", "rx_max", "rx_sum"}
PoolLabels  == {"info_pool"}
CommAt(label) ==
    IF label \in WorldLabels THEN "world"
    ELSE IF label \in PoolLabels THEN "pool" ELSE "root"

\* the ranks rank r meets in the collective behind the label: the members
\* of the communicator; for Create_group (lines 85-86) the members of the
\* new group, or r alone when r is not in the group
MeetsAt(r, label) ==
    IF label = "sp_group"
    THEN IF r \in SeqRange(pool[r].roots) THEN SeqRange(pool[r].roots) ELSE {r}
    ELSE IF CommAt(label) = "world" THEN Procs
    ELSE IF CommAt(label) = "pool" THEN pool[r].comm
    ELSE pool[r].rootcomm

\* rank r is inside the collective behind the label and may return from it
Ready(r, label) ==
    /\ at[r] = label
    /\ Matched(r, CommAt(label), MeetsAt(r, label))

\* rank r can take a step: start its next call, or return from a collective
CanStep(r) ==
    \/ at[r] = "idle" /\ ip[r] <= Len(script)
    \/ at[r] # "idle" /\ Ready(r, at[r])

Goto(r, label) == at' = [at EXCEPT ![r] = label]
Return(r) ==
    /\ at' = [at EXCEPT ![r] = "idle"]
    /\ ip' = [ip EXCEPT ![r] = @ + 1]

\* pool.set_pool(M, mode) on rank r (lines 51-94, MPI branch), cut at its
\* four collectives: Split, gather, bcast, Create_group
SetPoolStep(r) ==
    \/ /\ Idle(r, "set_pool")
       /\ LET M    == Cur(r)[2]
              mode == Cur(r)[3]
              npp  == ClampNpp(size, M)
              n    == NumPools(size, npp)
              i    == PoolIndex(size, npp, n, r, mode)
          IN  /\ nproc_per_pool' = M
              /\ remainder_mode' = mode
              /\ IF M > 0
                 THEN /\ pool' = [pool EXCEPT ![r].npp = npp, ![r].n = n,
                                              ![r].i = i]
                      /\ out' = IF size < M
                                THEN ParaPrint(r,
                                       << Line("para.print", <<"Insufficient", M>>),
                                          Line("para.print", <<"Reduce", size>>) >>)
                                ELSE out
                      /\ coll' = Issue(r, "world",
                                       Call("Split", SplitColor(n, i, r, mode)))
                      /\ Goto(r, "sp_split")
                      /\ UNCHANGED ip
                 ELSE /\ Return(r)
                      /\ UNCHANGED <<pool, out, coll>>
       /\ UNCHANGED <<size, policy, script, loc, para_msg>>
    \/ /\ Ready(r, "sp_split")
       /\ LET k     == Len(coll[r].world)
              color == [q \in Procs |-> coll[q].world[k].val]
              mem   == SplitMembers(color, r)
              rk    == SplitRank(mem, r)
          IN  /\ pool' = [pool EXCEPT ![r].comm = mem,
                                      ![r].size = Cardinality(mem),
                                      ![r].rank = rk]
              /\ coll' = Issue(r, "world", Call("gather", rk))
       /\ Goto(r, "sp_gather")
       /\ UNCHANGED <<size, nproc_per_pool, remainder_mode, policy, script,
                      ip, loc, para_msg, out>>
    \/ /\ Ready(r, "sp_gather")
       /\ LET ranks == GatherAt(r, "world", Procs)
          IN  /\ loc' = [loc EXCEPT ![r] = ranks]
              /\ coll' = Issue(r, "world", Call("bcast", ranks))
       /\ Goto(r, "sp_bcast")
       /\ UNCHANGED <<size, nproc_per_pool, remainder_mode, policy, script,
                      ip, pool, para_msg, out>>
    \/ /\ Ready(r, "sp_bcast")
       /\ LET ranks == BcastAt(r, "world", Procs)
              roots == RootsOf(ranks)
          IN  /\ loc' = [loc EXCEPT ![r] = ranks]
              /\ pool' = [pool EXCEPT ![r].roots = roots]
              /\ coll' = Issue(r, "world", Call("Create_group", roots))
       /\ Goto(r, "sp_group")
       /\ UNCHANGED <<size, nproc_per_pool, remainder_mode, policy, script,
                      ip, para_msg, out>>
    \/ /\ Ready(r, "sp_group")
       /\ pool' = [pool EXCEPT ![r].rootcomm = CreateGroup(pool[r].roots, r),
                               ![r].up = TRUE]
       /\ loc' = [loc EXCEPT ![r] = None]
       /\ Return(r)
       /\ UNCHANGED <<size, nproc_per_pool, remainder_mode, policy, script,
                      coll, para_msg, out>>

\* pool.set_sk_list(nspin, nk, nk_use) on rank r: no communication
SetSkListStep(r) ==
    /\ Idle(r, "set_sk_list")
    /\ pool' = [pool EXCEPT ![r] =
                    SetSkListOn(@, Cur(r)[2], Cur(r)[3], Cur(r)[4])]
    /\ sk_args' = [sk_args EXCEPT ![r] =
                       SkArgs(Cur(r)[2], Cur(r)[3], Cur(r)[4])]
    /\ policy' = "block"
    /\ Return(r)
    /\ UNCHANGED <<size, nproc_per_pool, remainder_mode, script, coll, loc,
                   para_msg, out>>

\* pool.set_sk_list_v1(nspin, nk, nk_use) on rank r: no communication
SetSkListV1Step(r) ==
    /\ Idle(r, "set_sk_list_v1")
    /\ pool' = [pool EXCEPT ![r] =
                    SetSkListV1On(@, Cur(r)[2], Cur(r)[3], Cur(r)[4])]
    /\ sk_args' = [sk_args EXCEPT ![r] =
                       SkArgs(Cur(r)[2], Cur(r)[3], Cur(r)[4])]
    /\ policy' = "striped"
    /\ Return(r)
    /\ UNCHANGED <<size, nproc_per_pool, remainder_mode, script, coll, loc,
                   para_msg, out>>

\* lines 109-113: what info() hands to para.print
InfoLines(p) ==
    << Line("para.print", <<"Setting up pools ...">>),
       Line("para.print", <<"pool", "size", "proc">>) >>
    \o [j \in 1 .. p.n |->
          Line("para.print",
               <<j - 1, Cardinality(DOMAIN p.pool_list[j - 1]),
                 p.pool_list[j - 1]>>)]
    \o << Line("para.print", <<"">>) >>

\* pool.info() on rank r (lines 96-113), cut at its collectives: gather in
\* the pool, gather among the roots, bcast to everyone
InfoStep(r) ==
    \/ /\ Idle(r, "info")
       /\ IF pool[r].pool_list = None
          THEN /\ coll' = Issue(r, "pool", Call("gather", r))
               /\ Goto(r, "info_pool")
               /\ UNCHANGED <<ip, out>>
          ELSE /\ out' = ParaPrint(r, InfoLines(pool[r]))
               /\ Return(r)
               /\ UNCHANGED coll
       /\ UNCHANGED <<size, nproc_per_pool, remainder_mode, policy, script,
                      pool, loc, para_msg>>
    \/ /\ Ready(r, "info_pool")
       /\ LET mypool == GatherAt(r, "pool", pool[r].comm)
          IN  /\ loc' = [loc EXCEPT ![r] = mypool]
              /\ IF InRootComm(pool[r])
                 THEN /\ coll' = Issue(r, "root", Call("gather", mypool))
                      /\ Goto(r, "info_root")
                 ELSE /\ coll' = Issue(r, "world",
                                       Call("bcast", pool[r].pool_list))
                      /\ Goto(r, "info_bcast")
       /\ UNCHANGED <<size, nproc_per_pool, remainder_mode, policy, script,
                      ip, pool, para_msg, out>>
    \/ /\ Ready(r, "info_root")
       /\ LET pl == GatherAt(r, "root", pool[r].rootcomm)
          IN  /\ pool' = [pool EXCEPT ![r].pool_list = pl]
              /\ coll' = Issue(r, "world", Call("bcast", pl))
       /\ Goto(r, "info_bcast")
       /\ UNCHANGED <<size, nproc_per_pool, remainder_mode, policy, script,
                      ip, loc, para_msg, out>>
    \/ /\ Ready(r, "info_bcast")
       /\ LET pl == BcastAt(r, "world", Procs)
          IN  /\ pool' = [pool EXCEPT ![r].pool_list = pl]
              /\ out' = ParaPrint(r, InfoLines([pool[r] EXCEPT !.pool_list = pl]))
       /\ loc' = [loc EXCEPT ![r] = None]
       /\ Return(r)
       /\ UNCHANGED <<size, nproc_per_pool, remainder_mode, policy, script,
                      coll, para_msg>>

\* line 180: max([len(skl) for skl in self.sk_list_all])
MaxLen(lists) ==
    LET lens == { Len(lists[j]) : j \in DOMAIN lists }
    IN  CHOOSE m \in lens : \A x \in lens : x <= m

\* lines 181-184: what sk_info() hands to para.print
SkInfoLines(all) ==
    << Line("para.print", <<"pool", "sk-tuple">>) >>
    \o [j \in 1 .. Cardinality(DOMAIN all) |->
          Line("para.print", <<j - 1, all[j - 1]>>)]
    \o << Line("para.print", <<"">>) >>

\* pool.sk_info() on rank r (lines 171-184): gather and bcast among the
\* roots; a rank without root communicator takes its own list
SkInfoStep(r) ==
    \/ /\ Idle(r, "sk_info")
       /\ IF InRootComm(pool[r])
          THEN /\ coll' = Issue(r, "root", Call("gather", pool[r].sk_list))
               /\ Goto(r, "ski_gather")
               /\ UNCHANGED <<ip, pool, out>>
          ELSE LET all == [j \in {0} |-> pool[r].sk_list]
               IN  /\ pool' = [pool EXCEPT ![r].sk_list_all = all,
                                           ![r].sk_list_maxl = MaxLen(all)]
                   /\ out' = ParaPrint(r, SkInfoLines(all))
                   /\ Return(r)
                   /\ UNCHANGED coll
       /\ UNCHANGED <<size, nproc_per_pool, remainder_mode, policy, script,
                      loc, para_msg>>
    \/ /\ Ready(r, "ski_gather")
       /\ LET all == GatherAt(r, "root", pool[r].rootcomm)
          IN  /\ pool' = [pool EXCEPT ![r].sk_list_all = all]
              /\ coll' = Issue(r, "root", Call("bcast", all))
       /\ Goto(r, "ski_bcast")
       /\ UNCHANGED <<size, nproc_per_pool, remainder_mode, policy, script,
                      ip, loc, para_msg, out>>
    \/ /\ Ready(r, "ski_bcast")
       /\ LET all == BcastAt(r, "root", pool[r].rootcomm)
          IN  /\ pool' = [pool EXCEPT ![r].sk_list_all = all,
                                      ![r].sk_list_maxl = MaxLen(all)]
              /\ out' = ParaPrint(r, SkInfoLines(all))
       /\ Return(r)
       /\ UNCHANGED <<size, nproc_per_pool, remainder_mode, policy, script,
                      coll, loc, para_msg>>

\* lines 205-207 / 276-278: the root prints every non-empty message under
\* the index of its sender
FlushLines(by, msgs) ==
    LET idx == SortedSeq({ j \in DOMAIN msgs : msgs[j] # <<>> })
    IN  [j \in 1 .. Len(idx) |-> Line(by, <<idx[j], msgs[idx[j]]>>)]

\* pool.log(flush = True) on rank r (lines 197-211)
PoolLogStep(r) ==
    \/ /\ Idle(r, "pool.log")
       /\ IF InRootComm(pool[r])
          THEN /\ coll' = Issue(r, "root", Call("gather", pool[r].msg))
               /\ Goto(r, "plog_gather")
               /\ UNCHANGED <<ip, pool, out>>
          ELSE /\ out' = [out EXCEPT ![r] =
                            Append(@, Line("print", <<pool[r].msg>>))]
               /\ pool' = [pool EXCEPT ![r].msg = <<>>]
               /\ Return(r)
               /\ UNCHANGED coll
       /\ UNCHANGED <<size, nproc_per_pool, remainder_mode, policy, script,
                      loc, para_msg>>
    \/ /\ Ready(r, "plog_gather")
       /\ LET msgs == GatherAt(r, "root", pool[r].rootcomm)
          IN  out' = IF r = MinRank(pool[r].rootcomm)
                     THEN [out EXCEPT ![r] = @ \o FlushLines("pool", msgs)]
                     ELSE out
       /\ pool' = [pool EXCEPT ![r].msg = <<>>]
       /\ Return(r)
       /\ UNCHANGED <<size, nproc_per_pool, remainder_mode, policy, script,
                      coll, loc, para_msg>>

\* para.log(flush = True) on rank r (lines 268-282)
ParaLogStep(r) ==
    \/ /\ Idle(r, "para.log")
       /\ coll' = Issue(r, "world", Call("gather", para_msg[r]))
       /\ Goto(r, "log_gather")
       /\ UNCHANGED <<size, nproc_per_pool, remainder_mode, policy, script,
                      ip, pool, loc, para_msg, out>>
    \/ /\ Ready(r, "log_gather")
       /\ LET msgs == GatherAt(r, "world", Procs)
          IN  out' = IF r = 0
                     THEN [out EXCEPT ![r] = @ \o FlushLines("proc", msgs)]
                     ELSE out
       /\ para_msg' = [para_msg EXCEPT ![r] = <<>>]
       /\ Return(r)
       /\ UNCHANGED <<size, nproc_per_pool, remainder_mode, policy, script,
                      coll, loc, pool>>

\* the scripts: set_pool, one work assignment, then up to MaxCalls calls of
\* info, sk_info, pool.log(flush = True) and para.log(flush = True)
SetPoolCalls ==
    { <<"set_pool", M, mode>> : M \in 1 .. MaxNpp, mode \in BOOLEAN }
AssignCalls ==
    { <<name, MaxSpin, MaxK, MaxK - 1>> :
          name \in {"set_sk_list", "set_sk_list_v1"} }
Reports == { <<"info">>, <<"sk_info">>, <<"pool.log">>, <<"para.log">> }
Tails == UNION { [1 .. L -> Reports] : L \in 0 .. MaxCalls }
Scripts ==
    { <<sp, sk>> \o tail : sp \in SetPoolCalls, sk \in AssignCalls,
                           tail \in Tails }

InitPar ==
    /\ size \in 1 .. MaxProcs
    /\ nproc_per_pool = 0
    /\ remainder_mode = FALSE
    /\ pool = [r \in Procs |-> NewPool]
    /\ policy = "none"
    /\ script \in Scripts
    /\ ip = [r \in Procs |-> 1]
    /\ at = [r \in Procs |-> "idle"]
    /\ coll = [r \in Procs |-> NoCalls]
    /\ loc = [r \in Procs |-> <<>>]
    /\ para_msg = [r \in Procs |-> <<>>]
    /\ out = [r \in Procs |-> <<>>]
    /\ InitExt
    /\ InitNoRixs

NextPar ==
    \/ \E r \in Procs : SetPoolStep(r) /\ UNCHANGED <<extvars, rixsvars>>
    \/ \E r \in Procs :
          SetSkListStep(r) /\ UNCHANGED <<raised, serial, ncalls, rixsvars>>
    \/ \E r \in Procs :
          SetSkListV1Step(r) /\ UNCHANGED <<raised, serial, ncalls, rixsvars>>
    \/ \E r \in Procs : InfoStep(r) /\ UNCHANGED <<extvars, rixsvars>>
    \/ \E r \in Procs : SkInfoStep(r) /\ UNCHANGED <<extvars, rixsvars>>
    \/ \E r \in Procs : PoolLogStep(r) /\ UNCHANGED <<extvars, rixsvars>>
    \/ \E r \in Procs : ParaLogStep(r) /\ UNCHANGED <<extvars, rixsvars>>

\* every rank runs whenever it is not waiting inside a collective
SpecPar == InitPar /\ [][NextPar]_vars /\ WF_vars(NextPar)

\* ------------------------------------------------------------- SpecLog
\* The message a rank passes to log or print: its text, tagged with the
\* rank that passed it and the position of the call in the script, so that
\* two messages are never confused.
Msg(r, text) == [text |-> text, by |-> r, pos |-> ip[r]]

\* lines 199-200 / 270-271: "if len(msg) > 0: self.msg += msg + '\n'"
Logged(buf, m) == IF m.text # "" THEN Append(buf, m) ELSE buf

\* pool.log(text) on rank r, flush = False (lines 197-200)
PoolLogMsgStep(r) ==
    /\ Idle(r, "pool.log_msg")
    /\ pool' = [pool EXCEPT ![r].msg = Logged(@, Msg(r, Cur(r)[2]))]
    /\ Return(r)
    /\ UNCHANGED <<size, nproc_per_pool, remainder_mode, policy, script,
                   coll, loc, para_msg, out>>

\* para.log(text) on rank r, flush = False (lines 268-271)
ParaLogMsgStep(r) ==
    /\ Idle(r, "para.log_msg")
    /\ para_msg' = [para_msg EXCEPT ![r] = Logged(@, Msg(r, Cur(r)[2]))]
    /\ Return(r)
    /\ UNCHANGED <<size, nproc_per_pool, remainder_mode, policy, script,
                   coll, loc, pool, out>>

\* pool.isroot() (lines 186-189): self.para.rank in self.roots
IsRoot(r, p) == r \in SeqRange(p.roots)

\* pool.print(text) on rank r (lines 191-195)
PoolPrintStep(r) ==
    /\ Idle(r, "pool.print")
    /\ out' = IF IsRoot(r, pool[r])
              THEN [out EXCEPT ![r] =
                       Append(@, Line("pool.print", <<Msg(r, "m")>>))]
              ELSE out
    /\ Return(r)
    /\ UNCHANGED <<size, nproc_per_pool, remainder_mode, policy, script,
                   coll, loc, pool, para_msg>>

\* para.print(text, rank = t) on rank r (lines 240-245)
ParaPrintStep(r) ==
    /\ Idle(r, "para.print")
    /\ out' = IF r = Cur(r)[2]
              THEN [out EXCEPT ![r] =
                       Append(@, Line("para.print(msg)", <<Msg(r, "m")>>))]
              ELSE out
    /\ Return(r)
    /\ UNCHANGED <<size, nproc_per_pool, remainder_mode, policy, script,
                   coll, loc, pool, para_msg>>

\* the logging and printing calls: log with a text or with the empty
\* string, log(flush = True), pool.print, para.print to rank 0 or rank 1
LogCalls ==
    { <<name, text>> : name \in {"pool.log_msg", "para.log_msg"},
                       text \in {"m", ""} }
    \cup { <<"pool.log">>, <<"para.log">>, <<"pool.print">> }
    \cup { <<"para.print", t>> : t \in 0 .. 1 }
LogTails == UNION { [1 .. L -> LogCalls] : L \in 0 .. MaxLogCalls }
LogScripts ==
    { <<sp>> \o tail :
         sp \in { <<"set_pool", M, mode>> : M \in 1 .. MaxLogNpp,
                                            mode \in BOOLEAN },
         tail \in LogTails }

InitLog ==
    /\ size \in 1 .. MaxLogProcs
    /\ nproc_per_pool = 0
    /\ remainder_mode = FALSE
    /\ pool = [r \in Procs |-> NewPool]
    /\ policy = "none"
    /\ script \in LogScripts
    /\ ip = [r \in Procs |-> 1]
    /\ at = [r \in Procs |-> "idle"]
    /\ coll = [r \in Procs |-> NoCalls]
    /\ loc = [r \in Procs |-> <<>>]
    /\ para_msg = [r \in Procs |-> <<>>]
    /\ out = [r \in Procs |-> <<>>]
    /\ InitExt
    /\ InitNoRixs

NextLog ==
    \/ \E r \in Procs : SetPoolStep(r) /\ UNCHANGED <<extvars, rixsvars>>
    \/ \E r \in Procs : PoolLogMsgStep(r) /\ UNCHANGED <<extvars, rixsvars>>
    \/ \E r \in Procs : ParaLogMsgStep(r) /\ UNCHANGED <<extvars, rixsvars>>
    \/ \E r \in Procs : PoolLogStep(r) /\ UNCHANGED <<extvars, rixsvars>>
    \/ \E r \in Procs : ParaLogStep(r) /\ UNCHANGED <<extvars, rixsvars>>
    \/ \E r \in Procs : PoolPrintStep(r) /\ UNCHANGED <<extvars, rixsvars>>
    \/ \E r \in Procs : ParaPrintStep(r) /\ UNCHANGED <<extvars, rixsvars>>

SpecLog == InitLog /\ [][NextLog]_vars /\ WF_vars(NextLog)

\* ---------------------------------------------------------- SpecSerial
\* The same calls on the objects made with para_class(MPI = None): there
\* para.comm is None, para.rank is 0 and para.size is 1 (lines 227-229),
\* so every method takes its branch without communication.

\* builtin print(...) appending to what the serial run printed
SerialPrint(t, lines) == [t EXCEPT !.out = @ \o lines]

\* set_pool(M, mode), lines 51-59 and 87-94
SerialSetPool(t, M, mode) ==
    IF M > 0
    THEN LET npp == ClampNpp(1, M)
             n   == NumPools(1, npp)
             i   == PoolIndex(1, npp, n, 0, mode)
             t1  == IF 1 < M
                    THEN SerialPrint(t,
                           << Line("para.print", <<"Insufficient", M>>),
                              Line("para.print", <<"Reduce", 1>>) >>)
                    ELSE t
         IN  [t1 EXCEPT !.pool.npp = npp, !.pool.n = n, !.pool.i = i,
                        !.pool.comm = {}, !.pool.rank = 0, !.pool.size = 1,
                        !.pool.rootcomm = {}, !.pool.roots = <<0>>,
                        !.pool.up = TRUE]
    ELSE t

\* info(), lines 96-113 with para.comm = None: pool_list = [[0]]
SerialInfo(t) ==
    LET pl == IF t.pool.pool_list = None
              THEN [j \in {0} |-> [k \in {0} |-> 0]]
              ELSE t.pool.pool_list
        t1 == [t EXCEPT !.pool.pool_list = pl]
    IN  SerialPrint(t1, InfoLines(t1.pool))

\* sk_info(), lines 171-184 with rootcomm = None
SerialSkInfo(t) ==
    LET all == [j \in {0} |-> t.pool.sk_list]
    IN  SerialPrint([t EXCEPT !.pool.sk_list_all = all,
                              !.pool.sk_list_maxl = MaxLen(all)],
                    SkInfoLines(all))

\* one call c of the script, made at position j, on the serial objects
SerialCall(t, c, j) ==
    LET m == [text |-> IF Len(c) > 1 THEN c[2] ELSE "m", by |-> 0, pos |-> j]
    IN  CASE c[1] = "set_pool" -> SerialSetPool(t, c[2], c[3])
          [] c[1] = "set_sk_list" ->
                [t EXCEPT !.pool = SetSkListOn(@, c[2], c[3], c[4])]
          [] c[1] = "set_sk_list_v1" ->
                [t EXCEPT !.pool = SetSkListV1On(@, c[2], c[3], c[4])]
          [] c[1] = "info" -> SerialInfo(t)
          [] c[1] = "sk_info" -> SerialSkInfo(t)
          [] c[1] = "pool.log_msg" -> [t EXCEPT !.pool.msg = Logged(@, m)]
          [] c[1] = "para.log_msg" -> [t EXCEPT !.para_msg = Logged(@, m)]
          \* lines 208-210: print(self.msg); self.msg = ''
          [] c[1] = "pool.log" ->
                [SerialPrint(t, << Line("print", <<t.pool.msg>>) >>)
                    EXCEPT !.pool.msg = <<>>]
          \* lines 279-281
          [] c[1] = "para.log" ->
                [SerialPrint(t, << Line("print", <<t.para_msg>>) >>)
                    EXCEPT !.para_msg = <<>>]
          \* lines 194-195: isroot() is "0 in [0]"
          [] c[1] = "pool.print" ->
                IF 0 \in SeqRange(t.pool.roots)
                THEN SerialPrint(t, << Line("pool.print", <<m>>) >>)
                ELSE t
          \* lines 244-245
          [] c[1] = "para.print" ->
                IF 0 = c[2]
                THEN SerialPrint(t, << Line("para.print(msg)",
                                            <<[m EXCEPT !.text = "m"]>>) >>)
                ELSE t

\* when rank r completes a call, the serial run makes the same call
SerialFollows(r) ==
    /\ serial' = IF ip'[r] # ip[r]
                 THEN SerialCall(serial, Cur(r), ip[r])
                 ELSE serial
    /\ UNCHANGED <<raised, ncalls, rixsvars>>

\* the scripts: set_pool, a work assignment, then up to MaxSerialCalls
\* calls of any exposed operation
SerialTails ==
    UNION { [1 .. L -> Reports \cup LogCalls \cup AssignCalls] :
               L \in 0 .. MaxSerialCalls }

InitSerial ==
    /\ size = 1
    /\ nproc_per_pool = 0
    /\ remainder_mode = FALSE
    /\ pool = [r \in Procs |-> NewPool]
    /\ policy = "none"
    /\ script \in { <<sp, sk>> \o tail : sp \in SetPoolCalls,
                                         sk \in AssignCalls,
                                         tail \in SerialTails }
    /\ ip = [r \in Procs |-> 1]
    /\ at = [r \in Procs |-> "idle"]
    /\ coll = [r \in Procs |-> NoCalls]
    /\ loc = [r \in Procs |-> <<>>]
    /\ para_msg = [r \in Procs |-> <<>>]
    /\ out = [r \in Procs |-> <<>>]
    /\ InitExt
    /\ InitNoRixs

NextSerial ==
    \/ \E r \in Procs :
          SetPoolStep(r) /\ SerialFollows(r) /\ UNCHANGED sk_args
    \/ \E r \in Procs : SetSkListStep(r) /\ SerialFollows(r)
    \/ \E r \in Procs : SetSkListV1Step(r) /\ SerialFollows(r)
    \/ \E r \in Procs :
          InfoStep(r) /\ SerialFollows(r) /\ UNCHANGED sk_args
    \/ \E r \in Procs :
          SkInfoStep(r) /\ SerialFollows(r) /\ UNCHANGED sk_args
    \/ \E r \in Procs :
          PoolLogMsgStep(r) /\ SerialFollows(r) /\ UNCHANGED sk_args
    \/ \E r \in Procs :
          ParaLogMsgStep(r) /\ SerialFollows(r) /\ UNCHANGED sk_args
    \/ \E r \in Procs :
          PoolLogStep(r) /\ SerialFollows(r) /\ UNCHANGED sk_args
    \/ \E r \in Procs :
          ParaLogStep(r) /\ SerialFollows(r) /\ UNCHANGED sk_args
    \/ \E r \in Procs :
          PoolPrintStep(r) /\ SerialFollows(r) /\ UNCHANGED sk_args
    \/ \E r \in Procs :
          ParaPrintStep(r) /\ SerialFollows(r) /\ UNCHANGED sk_args

SpecSerial == InitSerial /\ [][NextSerial]_vars /\ WF_vars(NextSerial)

\* --------------------------------------------------------- SpecSetPool
\* set_pool alone, called with a negative, a zero or a positive
\* nproc_per_pool
SetPoolArgs ==
    { <<"set_pool", M, mode>> : M \in (-1) .. MaxNpp, mode \in BOOLEAN }

InitSetPool ==
    /\ size \in 1 .. MaxProcs
    /\ nproc_per_pool = 0
    /\ remainder_mode = FALSE
    /\ pool = [r \in Procs |-> NewPool]
    /\ policy = "none"
    /\ script \in { <<sp>> : sp \in SetPoolArgs }
    /\ ip = [r \in Procs |-> 1]
    /\ at = [r \in Procs |-> "idle"]
    /\ coll = [r \in Procs |-> NoCalls]
    /\ loc = [r \in Procs |-> <<>>]
    /\ para_msg = [r \in Procs |-> <<>>]
    /\ out = [r \in Procs |-> <<>>]
    /\ InitExt
    /\ InitNoRixs

NextSetPool ==
    \E r \in Procs : SetPoolStep(r) /\ UNCHANGED <<extvars, rixsvars>>

SpecSetPool == InitSetPool /\ [][NextSetPool]_vars /\ WF_vars(NextSetPool)

\* ------------------------------------------------------------ SpecRixs
\* rixs_f1 of rixs.py, as far as it distributes the incident energies over
\* the ranks of its communicator.  The physics is kept as data: Mv1c1[w] is
\* the largest magnitude in the matrix built for omega_in[w] (lines
\* 103-133), and a row of the map is identified by what it is computed
\* from.

\* line 91: the indices of omega_in = linspace(e_in_lo, e_in_hi, nener_in + 1)
OmegaIn(ne) == 0 .. ne

\* line 138: the row indices of rixs_map = zeros((nener_in, nener_out + 1))
Rows(ne) == 0 .. (ne - 1)

\* line 99: iw_local = range(rank, nener_in + 1, size); position j of the
\* sequence is Python's iw = j - 1
IwLocal(rk, ne, sz) ==
    LET len == IF rk >= ne + 1 THEN 0 ELSE (ne - rk) \div sz + 1
    IN  [j \in 1 .. len |-> rk + (j - 1) * sz]

Max(a, b) == IF a > b THEN a ELSE b

\* lines 151-153: the largest magnitude among the first j local matrices
RECURSIVE LocalMax(_, _)
LocalMax(iwl, j) ==
    IF j = 0 THEN 0 ELSE Max(LocalMax(iwl, j - 1), Mv1c1[iwl[j]])

\* lines 163-168: the spectrum stick_to_spectrum returns, identified by the
\* matrix it is made from (w), the index of omega_in its stick energies use
\* (e; ne + 1 in loss mode, where they use none) and the threshold (thr);
\* never the zero row
Spectrum(ne, w, e, thr) == 1 + e + (ne + 2) * (w + (ne + 1) * thr)

\* lines 164-167: the omega_in index of the stick energies at position iw
StickIndex(ne, iw, loss) == IF loss THEN ne + 1 ELSE iw

\* lines 161-168: the loop over iw_local from position j on; writing a row
\* outside the matrix raises IndexError and ends the loop
RECURSIVE Broaden(_, _, _, _)
Broaden(map, iwl, j, thr) ==
    IF j > Len(iwl) THEN [map |-> map, raised |-> ""]
    ELSE IF iwl[j] \notin DOMAIN map
         THEN [map |-> map, raised |-> "IndexError"]
         ELSE Broaden([map EXCEPT ![iwl[j]] =
                           Spectrum(nener_in, iwl[j],
                                    StickIndex(nener_in, j - 1, loss_mode), thr)],
                      iwl, j + 1, thr)

\* comm.allreduce(value, op = MPI.MAX) over the ranks 0 .. q
RECURSIVE AllMax(_, _)
AllMax(k, q) ==
    IF q < 0 THEN 0 ELSE Max(coll[q].world[k].val, AllMax(k, q - 1))

\* comm.allreduce(rixs_map, op = MPI.SUM) over the ranks 0 .. q
RECURSIVE AllSum(_, _)
AllSum(k, q) ==
    IF q < 0 THEN [w \in Rows(nener_in) |-> 0]
    ELSE [w \in Rows(nener_in) |->
             coll[q].world[k].val[w] + AllSum(k, q - 1)[w]]

\* lines 158-171 on rank r once Mv1c1_max is known: the broadening loop,
\* then the sum all-reduce when there are several ranks
BroadenAndSum(r, mx, zero) ==
    LET res == Broaden(zero, IwLocal(r, nener_in, size), 1, mx)
    IN  /\ Mv1c1_max' = [Mv1c1_max EXCEPT ![r] = mx]
        /\ rixs_map' = [rixs_map EXCEPT ![r] = res.map]
        /\ raised' = [raised EXCEPT ![r] = res.raised]
        /\ IF res.raised # ""
           THEN /\ Goto(r, "raised")
                /\ UNCHANGED <<ip, coll>>
           ELSE IF size > 1
                THEN /\ coll' = Issue(r, "world",
                                      Call("allreduce_SUM", res.map))
                     /\ Goto(r, "rx_sum")
                     /\ UNCHANGED ip
                ELSE /\ Return(r)
                     /\ UNCHANGED coll

\* rixs_f1(..., comm) on rank r (lines 91-173), cut at its two all-reduces
RixsStep(r) ==
    \/ /\ Idle(r, "rixs_f1")
       /\ LET iwl  == IwLocal(r, nener_in, size)
              mx   == LocalMax(iwl, Len(iwl))
              zero == [w \in Rows(nener_in) |-> 0]
          IN  IF size > 1
              THEN /\ Mv1c1_max' = [Mv1c1_max EXCEPT ![r] = mx]
                   /\ rixs_map' = [rixs_map EXCEPT ![r] = zero]
                   /\ coll' = Issue(r, "world", Call("allreduce_MAX", mx))
                   /\ Goto(r, "rx_max")
                   /\ UNCHANGED <<ip, raised>>
              ELSE BroadenAndSum(r, mx, zero)
       /\ UNCHANGED <<size, nproc_per_pool, remainder_mode, pool, policy,
                      script, loc, para_msg, out, serial, sk_args,
                      ncalls, nener_in, loss_mode, Mv1c1>>
    \/ /\ Ready(r, "rx_max")
       /\ BroadenAndSum(r, AllMax(Len(coll[r].world), size - 1), rixs_map[r])
       /\ UNCHANGED <<size, nproc_per_pool, remainder_mode, pool, policy,
                      script, loc, para_msg, out, serial, sk_args,
                      ncalls, nener_in, loss_mode, Mv1c1>>
    \/ /\ Ready(r, "rx_sum")
       /\ rixs_map' = [rixs_map EXCEPT ![r] =
                          AllSum(Len(coll[r].world), size - 1)]
       /\ Return(r)
       /\ UNCHANGED <<size, nproc_per_pool, remainder_mode, pool, policy,
                      script, coll, loc, para_msg, out, raised, serial,
                      sk_args, ncalls, nener_in, loss_mode, Mv1c1,
                      Mv1c1_max>>

InitRixs ==
    /\ size \in 1 .. MaxRanks
    /\ nproc_per_pool = 0
    /\ remainder_mode = FALSE
    /\ pool = [r \in Procs |-> NewPool]
    /\ policy = "none"
    /\ script = << <<"rixs_f1">> >>
    /\ ip = [r \in Procs |-> 1]
    /\ at = [r \in Procs |-> "idle"]
    /\ coll = [r \in Procs |-> NoCalls]
    /\ loc = [r \in Procs |-> <<>>]
    /\ para_msg = [r \in Procs |-> <<>>]
    /\ out = [r \in Procs |-> <<>>]
    /\ InitExt
    /\ nener_in \in 0 .. MaxEner
    /\ loss_mode \in BOOLEAN
    /\ Mv1c1 \in [OmegaIn(nener_in) -> 1 .. 2]
    /\ Mv1c1_max = [r \in Procs |-> 0]
    /\ rixs_map = [r \in Procs |-> <<>>]

NextRixs == \E r \in Procs : RixsStep(r)

SpecRixs == InitRixs /\ [][NextRixs]_vars /\ WF_vars(NextRixs)

\* ------------------------------------------------------------ properties
Up == \A r \in Procs : pool[r].up

\* quantities every rank computes identically; read from rank 0
N      == pool[0].n
NSpin  == pool[0].nspin
NK     == pool[0].nk
NKUse  == pool[0].nk_use

PoolIds == 0 .. (N - 1)

\* the ranks whose pool index is p
Members(p) == { r \in Procs : pool[r].i = p }

MinOf(S) == CHOOSE x \in S : \A y \in S : x <= y

\* the work list held by pool p (the one of its lowest rank)
SkListOfPool(p) == pool[MinOf(Members(p))].sk_list
SkOffsetOfPool(p) == pool[MinOf(Members(p))].sk_offset

WorkSpace == (0 .. (NSpin - 1)) \X (0 .. (NKUse - 1))

Occurrences(l, t) == Cardinality({ j \in DOMAIN l : l[j] = t })

RECURSIVE PoolSizeSum(_)
PoolSizeSum(k) ==
    IF k = 0 THEN 0 ELSE Cardinality(Members(k - 1)) + PoolSizeSum(k - 1)

Abs(x) == IF x < 0 THEN -x ELSE x

\* C1: under both assignment policies every tuple of the work space
\* [0,nspin) x [0,nk_use) is in the list of exactly one pool id of [0,N),
\* exactly once, and the lists hold no tuple outside the work space.
C1_Partition ==
    policy # "none" =>
        /\ \A p \in PoolIds : Members(p) # {}
        /\ \A t \in WorkSpace :
              /\ Cardinality({ p \in PoolIds :
                                 Occurrences(SkListOfPool(p), t) > 0 }) = 1
              /\ \A p \in PoolIds : Occurrences(SkListOfPool(p), t) <= 1
        /\ \A p \in PoolIds :
              SeqRange(SkListOfPool(p)) \subseteq WorkSpace

C1_Witness ==
    /\ policy = "block"
    /\ N = 3 /\ NSpin = 2 /\ NK = 5 /\ NKUse = 4
    /\ SkListOfPool(0) = << <<0, 0>>, <<1, 0>>, <<0, 1>>, <<1, 1>> >>

\* C2 (as claimed): set_pool gives N = floor(P / min(M, P)), every rank is
\* in exactly one of the N pools, and the sizes of the N pools sum to P.
C2_PoolCount ==
    Up =>
        /\ N = size \div Min(nproc_per_pool, size)
        /\ \A r \in Procs :
              Cardinality({ p \in PoolIds : r \in Members(p) }) = 1
        /\ PoolSizeSum(N) = size

\* C3 (as claimed): the pool id of every rank lies in [0, N).
C3_PoolIdInRange ==
    Up => \A r \in Procs : pool[r].i \in PoolIds

\* C4 (as claimed): every set of ranks sharing a pool id has at least
\* min(M, P) members.
C4_MinPoolSize ==
    Up => \A r \in Procs :
            /\ Cardinality(Members(pool[r].i)) >= Min(nproc_per_pool, size)
            /\ pool[r].size >= Min(nproc_per_pool, size)

NonDecreasing == \A r, q \in Procs : r <= q => pool[r].i <= pool[q].i

C6_Remainder ==
    (Up /\ remainder_mode) =>
        /\ \A r \in Procs : pool[r].i = r % N
        /\ \A p, q \in PoolIds :
              Abs(Cardinality(Members(p)) - Cardinality(Members(q))) <= 1
        /\ \A r, q \in Procs : Abs(pool[r].size - pool[q].size) <= 1
        /\ (size = 10 /\ nproc_per_pool = 3) =>
              /\ Members(0) = {0, 3, 6, 9}
              /\ Members(1) = {1, 4, 7}
              /\ Members(2) = {2, 5, 8}

C6_Witness ==
    /\ Up /\ remainder_mode
    /\ size = 10 /\ nproc_per_pool = 3
    /\ Members(0) = {0, 3, 6, 9}

\* C7 (as claimed): after set_pool on every rank the root list is the same
\* on every rank, has exactly N entries, and its i-th entry is the lowest
\* global rank of pool i.
C7_Roots ==
    Up =>
        /\ \A r \in Procs : pool[r].roots = pool[0].roots
        /\ Len(pool[0].roots) = N
        /\ \A p \in PoolIds :
              /\ Members(p) # {}
              /\ pool[0].roots[p + 1] = MinOf(Members(p))

Comms == {"world", "pool", "root"}

\* the communicator c of rank r, as a set of ranks ({}: none, COMM_NULL)
CommOf(r, c) ==
    IF c = "world" THEN Procs
    ELSE IF c = "pool" THEN pool[r].comm ELSE pool[r].rootcomm

\* two call sequences agree (operation and root) as far as both go
SameCalls(a, b) ==
    \A k \in (DOMAIN a) \cap (DOMAIN b) :
        a[k].op = b[k].op /\ a[k].root = b[k].root

AllFinished == \A r \in Procs : Finished(r)

\* C8: when every rank runs the same script, the members of each
\* communicator issue the same sequence of collectives on it, a rank that
\* is not a member issues none, and no rank waits forever in a collective:
\* until every rank has returned from its last call some rank can move.
C8_Collectives ==
    /\ \A r \in Procs : \A c \in Comms :
          /\ \A q \in CommOf(r, c) : SameCalls(coll[r][c], coll[q][c])
          /\ CommOf(r, c) = {} => coll[r][c] = <<>>
    /\ AllFinished \/ \E r \in Procs : CanStep(r)

C8_Witness ==
    /\ AllFinished
    /\ size = 5 /\ N = 2 /\ Len(script) = 3
    /\ script[3] = <<"info">>
    /\ pool[0].rootcomm = {0, 3}
    /\ pool[4].rootcomm = {}
    /\ Len(coll[0].root) = 1 /\ Len(coll[3].root) = 1
    /\ Len(coll[4].pool) = 1
    /\ Len(coll[4].world) = 5

OwnedBy(p) == Len(SkListOfPool(p))

\* the striped ownership rule: (s, k) belongs to pool (s*nk + k) mod N
StripedOwnership ==
    \A p \in PoolIds : \A t \in WorkSpace :
        (Occurrences(SkListOfPool(p), t) > 0) <=> ((t[1] * NK + t[2]) % N = p)

Balanced ==
    /\ \A p, q \in PoolIds : Abs(OwnedBy(p) - OwnedBy(q)) <= 1
    /\ ((NSpin * NKUse) % N = 0) =>
          \A p, q \in PoolIds : OwnedBy(p) = OwnedBy(q)

\* C9 (as claimed): striped policy: (s, k) is owned by pool (s*nk + k) mod N
\* and, for any nspin, nk, nk_use <= nk and N, the tuple counts of any two
\* pools differ by at most one, all equal when nspin*nk_use is a multiple
\* of N.
C9_Original ==
    policy = "striped" => (StripedOwnership /\ Balanced)

\* C9 (amended): striped policy: (s, k) is owned by pool (s*nk + k) mod N;
\* when nspin = 1 or nk - nk_use is a multiple of N (in particular when
\* nk_use = nk) the tuple counts of any two pools differ by at most one and
\* are all equal when nspin*nk_use is a multiple of N.
C9_Striped ==
    policy = "striped" =>
        /\ StripedOwnership
        /\ (NSpin = 1 \/ (NK - NKUse) % N = 0) => Balanced

C9_Witness ==
    /\ policy = "striped"
    /\ N = 3 /\ NSpin = 2 /\ NK = 5 /\ NKUse = 5
    /\ SkListOfPool(0) = << <<0, 0>>, <<0, 3>>, <<1, 1>>, <<1, 4>> >>
    /\ SkOffsetOfPool(0) = <<0, 3, 6, 9>>

\* first k-index of pool p when the blocks of pools 0..p-1 precede it
\* without gap, each of length floor(nk_use/N) + (1 if q < nk_use mod N)
RECURSIVE BlockStart(_)
BlockStart(p) ==
    IF p = 0 THEN 0
    ELSE BlockStart(p - 1) + (NKUse \div N)
            + (IF p - 1 < NKUse % N THEN 1 ELSE 0)

\* C10: block policy: pool i owns floor(nk_use/N) + (1 if i < nk_use mod N)
\* consecutive k-indices, the blocks of pools 0..N-1 follow one another from
\* 0 to nk_use without gap or overlap, and the list is k-major, spin-minor.
C10_Block ==
    policy = "block" =>
        /\ BlockStart(N) = NKUse
        /\ \A p \in PoolIds :
              LET l   == SkListOfPool(p)
                  len == BlockStart(p + 1) - BlockStart(p)
              IN  /\ len = (NKUse \div N) + (IF p < NKUse % N THEN 1 ELSE 0)
                  /\ Len(l) = len * NSpin
                  /\ \A kk \in 0 .. (len - 1) : \A s \in 0 .. (NSpin - 1) :
                        l[kk * NSpin + s + 1] = <<s, BlockStart(p) + kk>>
        /\ (N = 3 /\ NSpin = 2 /\ NK = 5 /\ NKUse = 5) =>
              /\ SkListOfPool(0) = << <<0, 0>>, <<1, 0>>, <<0, 1>>, <<1, 1>> >>
              /\ SkOffsetOfPool(0) = <<0, 5, 1, 6>>
              /\ SkListOfPool(1) = << <<0, 2>>, <<1, 2>>, <<0, 3>>, <<1, 3>> >>
              /\ SkListOfPool(2) = << <<0, 4>>, <<1, 4>> >>

C10_Witness ==
    /\ policy = "block"
    /\ N = 3 /\ NSpin = 2 /\ NK = 5 /\ NKUse = 5
    /\ SkListOfPool(1) = << <<0, 2>>, <<1, 2>>, <<0, 3>>, <<1, 3>> >>
    /\ SkListOfPool(2) = << <<0, 4>>, <<1, 4>> >>

\* C11 (as claimed): a set_pool call with nproc_per_pool <= 0 does not
\* return normally: it ends with an error on every rank, and no collective
\* (Split, gather, bcast, Create_group) has been issued.
C11_FailFast ==
    \A r \in Procs :
        (Len(script) = 1 /\ script[1][2] <= 0 /\ Finished(r)) =>
            /\ raised[r] # ""
            /\ coll[r] = NoCalls

\* the attributes of a pool object other than its communicator handles
Fields(p) == [p EXCEPT !.comm = {}, !.rootcomm = {}]

\* C12 (as claimed): run with one process, the MPI backend and the serial
\* backend agree after every call of the script: set_pool gives N = 1, pool
\* id 0, pool rank 0, pool size 1 and roots [0] on both, and the objects
\* hold the same attributes, the same buffers and have printed the same.
C12_SerialSame ==
    (size = 1 /\ at[0] = "idle" /\ ip[0] > 1) =>
        /\ pool[0].n = 1 /\ pool[0].i = 0 /\ pool[0].rank = 0
        /\ pool[0].size = 1 /\ pool[0].roots = <<0>>
        /\ Fields(serial.pool) = Fields(pool[0])
        /\ serial.para_msg = para_msg[0]
        /\ serial.out = out[0]

\* the largest magnitude over all of omega_in
RECURSIVE GlobalMax(_)
GlobalMax(w) == IF w < 0 THEN 0 ELSE Max(Mv1c1[w], GlobalMax(w - 1))

\* the rows a single process (rank 0 of 1, where iw = w_ind) computes
SingleMap ==
    [w \in Rows(nener_in) |->
        Spectrum(nener_in, w, StickIndex(nener_in, w, loss_mode),
                 GlobalMax(nener_in))]

\* C13 (as claimed): every index of omega_in is in the iw_local of exactly
\* one rank; a rank leaves the rows it does not own zero; and when no rank
\* can go on, every rank has returned the same map, the one a single
\* process computes (so each owned row a rank wrote is that map's row).
C13_RixsSame ==
    script = << <<"rixs_f1">> >> =>
        /\ \A w \in OmegaIn(nener_in) :
              Cardinality({ r \in Procs :
                  w \in SeqRange(IwLocal(r, nener_in, size)) }) = 1
        /\ \A r \in Procs : \A w \in Rows(nener_in) :
              (at[r] \in {"rx_sum", "raised"} /\ rixs_map[r][w] # 0) =>
                  /\ w \in SeqRange(IwLocal(r, nener_in, size))
                  /\ rixs_map[r][w] = SingleMap[w]
        /\ (\A r \in Procs : ~CanStep(r)) =>
              \A r \in Procs : Finished(r) /\ rixs_map[r] = SingleMap

\* C19 (as claimed): for nener_in >= 1, every index of every rank's
\* iw_local is a row index of rixs_map and an index of omega_in; no rank
\* fails with an out-of-range row, and none is left blocked in an
\* all-reduce its peers never enter.
C19_ValidRows ==
    (script = << <<"rixs_f1">> >> /\ nener_in >= 1) =>
        /\ \A r \in Procs :
              \A w \in SeqRange(IwLocal(r, nener_in, size)) :
                  w \in Rows(nener_in) /\ w \in OmegaIn(nener_in)
        /\ \A r \in Procs : raised[r] = ""
        /\ (\A r \in Procs : ~CanStep(r)) => \A r \in Procs : Finished(r)

\* every line printed so far: <<q, k>> is line k of rank q
Printed == UNION { { <<q, k>> : k \in DOMAIN out[q] } : q \in Procs }

LineAt(qk) == out[qk[1]][qk[2]]

\* the line carries message m in a flushed buffer
Carries(l, m) ==
    CASE l.by \in {"pool", "proc"} -> m \in SeqRange(l.text[2])
      [] l.by = "print" -> m \in SeqRange(l.text[1])
      [] OTHER -> FALSE

\* the line is a "pool o:" or "proc o:" group (by says which) carrying m
CarriesUnder(l, by, o, m) ==
    l.by = by /\ l.text[1] = o /\ m \in SeqRange(l.text[2])

\* the positions after j of the calls named name
CallsAfter(j, name) == { k \in DOMAIN script : k > j /\ script[k][1] = name }

\* the message logged at position j by rank r through the call named
\* logname was flushed by every rank (flushname is the flushing call), and
\* is printed once, under origin o
FlushedOnce(r, j, logname, flushname, by, o) ==
    LET m == [text |-> script[j][2], by |-> r, pos |-> j]
    IN  ( /\ script[j][1] = logname
          /\ script[j][2] # ""
          /\ CallsAfter(j, flushname) # {}
          /\ \A q \in Procs : ip[q] > MinOf(CallsAfter(j, flushname)) ) =>
            /\ Cardinality({ qk \in Printed : Carries(LineAt(qk), m) }) = 1
            /\ Cardinality({ qk \in Printed :
                                CarriesUnder(LineAt(qk), by, o, m) }) = 1

\* the messages of a buffer are in the order they were logged
InLogOrder(buf) ==
    \A a, b \in DOMAIN buf : a < b => buf[a].pos < buf[b].pos

\* the buffer holds nothing logged before a flush its rank has completed
OnlyUnflushed(r, buf, flushname) ==
    \A a \in DOMAIN buf :
        \A k \in CallsAfter(buf[a].pos, flushname) : ip[r] <= k

\* C14 (as claimed): a non-empty message logged through pool.log (para.log)
\* is printed exactly once by the next flush every rank completes, in a
\* group headed by the pool id (the rank) of the process that logged it;
\* the messages of a group are in logging order; and after a flush a
\* buffer holds only what was logged since.
C14_LogFlush ==
    (\A r \in Procs : pool[r].up) =>
        /\ \A r \in Procs : \A j \in DOMAIN script :
              /\ FlushedOnce(r, j, "pool.log_msg", "pool.log", "pool",
                             pool[r].i)
              /\ FlushedOnce(r, j, "para.log_msg", "para.log", "proc", r)
        /\ \A qk \in Printed :
              LineAt(qk).by \in {"pool", "proc"} =>
                  InLogOrder(LineAt(qk).text[2])
        /\ \A r \in Procs :
              /\ OnlyUnflushed(r, pool[r].msg, "pool.log")
              /\ OnlyUnflushed(r, para_msg[r], "para.log")

\* how many lines rank r printed for the call at script position j through
\* pool.print (by = "pool.print") or para.print (by = "para.print(msg)")
PrintsOf(r, j, by) ==
    Cardinality({ k \in DOMAIN out[r] :
                     out[r][k].by = by /\ out[r][k].text[1].pos = j })

\* C15 (as claimed): pool.print prints on a process iff it is the root of
\* its pool (pool rank 0); para.print(rank = t) prints iff the process is
\* rank t; log(flush = True) prints only on rank 0 of the communicator it
\* gathers on, which is global rank 0; and apart from para.print to a
\* chosen rank nothing is printed by a process that is not a pool root.
C15_RootsPrint ==
    (\A r \in Procs : pool[r].up) =>
        \A r \in Procs :
            /\ \A j \in DOMAIN script :
                  (ip[r] > j /\ script[j][1] = "pool.print") =>
                      PrintsOf(r, j, "pool.print") =
                          (IF pool[r].rank = 0 THEN 1 ELSE 0)
            /\ \A j \in DOMAIN script :
                  (ip[r] > j /\ script[j][1] = "para.print") =>
                      PrintsOf(r, j, "para.print(msg)") =
                          (IF r = script[j][2] THEN 1 ELSE 0)
            /\ \A k \in DOMAIN out[r] :
                  /\ out[r][k].by \in {"pool", "proc", "print"} => r = 0
                  /\ out[r][k].by # "para.print(msg)" => pool[r].rank = 0

\* every rank has completed a call named name of the script
AllCalled(name) ==
    \E j \in DOMAIN script :
        script[j][1] = name /\ \A r \in Procs : ip[r] > j

\* the list a gather over the set S of ranks returns: its members by rank
RankList(S) == [k \in 0 .. (Cardinality(S) - 1) |-> NthOf(S, k)]

\* C16 (as claimed): once every process has called info(), pool_list is
\* the same on every process, has exactly N entries, and entry i lists the
\* global ranks of pool i; once every process has called sk_info(),
\* sk_list_all is the same on every process, has exactly N entries, and
\* entry i is the tuple sequence of pool i.
C16_Gathers ==
    /\ AllCalled("info") =>
          /\ \A r \in Procs : pool[r].pool_list = pool[0].pool_list
          /\ DOMAIN pool[0].pool_list = PoolIds
          /\ \A i \in PoolIds :
                pool[0].pool_list[i] = RankList(Members(i))
    /\ AllCalled("sk_info") =>
          /\ \A r \in Procs : pool[r].sk_list_all = pool[0].sk_list_all
          /\ DOMAIN pool[0].sk_list_all = PoolIds
          /\ \A i \in PoolIds :
                pool[0].sk_list_all[i] = SkListOfPool(i)

\* C17: after any sequence of work assignment calls, what a rank stores is
\* the assignment of its last call alone: nspin, nk and nk_use are that
\* call's arguments, nsk = len(sk_list) = len(sk_offset), every offset is
\* s * nk + k of the tuple at the same position with the last call's nk,
\* and no tuple is listed twice or has a spin the last call did not ask for.
C17_LastCall ==
    \A r \in Procs :
        sk_args[r] # NoSkArgs =>
            LET p == pool[r]
                a == sk_args[r]
            IN  /\ p.nspin = a.nspin /\ p.nk = a.nk /\ p.nk_use = a.nk_use
                /\ p.nsk = Len(p.sk_list)
                /\ Len(p.sk_offset) = Len(p.sk_list)
                /\ \A j \in DOMAIN p.sk_list :
                      /\ p.sk_offset[j] =
                             p.sk_list[j][1] * a.nk + p.sk_list[j][2]
                      /\ p.sk_list[j][1] \in 0 .. (a.nspin - 1)
                      /\ Occurrences(p.sk_list, p.sk_list[j]) = 1

\* a second assignment (striped, nspin = 2, nk = nk_use = 5, three pools)
\* has replaced an earlier one
C17_Witness ==
    /\ ncalls = 2
    /\ policy = "striped"
    /\ N = 3 /\ NSpin = 2 /\ NK = 5 /\ NKUse = 5
    /\ SkListOfPool(1) = << <<0, 1>>, <<0, 4>>, <<1, 2>> >>
    /\ SkOffsetOfPool(1) = <<1, 4, 7>>

\* C18 (as claimed): after set_pool and a work assignment made with the
\* same arguments on every process, every tuple of every process's sk_list
\* is in the work space, processes of one pool hold the same sequence, and
\* every tuple of the work space is held by the processes of exactly one
\* pool.
C18_EndToEnd ==
    policy # "none" =>
        /\ \A r \in Procs : SeqRange(pool[r].sk_list) \subseteq WorkSpace
        /\ \A r, q \in Procs :
              pool[r].i = pool[q].i => pool[r].sk_list = pool[q].sk_list
        /\ \A t \in WorkSpace :
              Cardinality({ pool[r].i : r \in
                  { q \in Procs : t \in SeqRange(pool[q].sk_list) } }) = 1

====
